---- MODULE Spec2Model ----
(***************************************************************************)
(* sphinxserve: SphinxServer (src/sphinxserve/__init__.py).                *)
(*                                                                         *)
(* manage() runs one initial build, then spawns three greenlets (serve,    *)
(* watch, render), installs a SIGTERM handler that kills them, joins them  *)
(* and exits.  gevent.monkey.patch_all() makes every task a greenlet of    *)
(* one cooperative scheduler: a task runs until it reaches a suspension    *)
(* point (watch_ev.wait() on an unset event, the build subprocess, the     *)
(* next filesystem notification, the web server's loop, joinall), and only *)
(* then may another task run.  A render or manage program counter that is  *)
(* not a suspension point therefore disables every other task.             *)
(*                                                                         *)
(* sphinxserve.lib (fs_event_ctx, Webserver) is not part of the source     *)
(* tree at hand; the suffix filter and the web server's handling of        *)
(* render_ev and of its connections follow the written specification.      *)
(***************************************************************************)
EXTENDS Integers, Sequences, FiniteSets, TLC

\* ------------------------------------------------------------------ bounds
\* Number of filesystem changes the environment makes.
MaxChanges == 3
\* Longest captured stderr text, in characters.
MaxStderrLen == 2
\* Number of browser tabs that may open a push connection.
MaxClients == 1

\* ------------------------------------------------------- program constants
\* signal.SIGTERM
SIGTERM == 15

\* conf.extensions
extensions == {"rst", "rst~", "txt", "txt~"}

\* Suffixes of the files the environment changes.
Suffixes == extensions \cup {"md"}

\* Exit codes the external build command returns.
ExitCodes == {0, 1, 2}

\* Characters of a captured stderr text: whitespace and non-whitespace.
Chars == {" ", "x"}

Whitespace == {" ", "\t", "\n"}

StderrTexts == UNION {[1..n -> Chars] : n \in 0..MaxStderrLen}

Clients == 1..MaxClients

\* The clients whose received notifications are recorded; the server treats
\* every connection alike.
Observed == {c \in Clients : c = 1}

Workers == {"serve", "watch", "render"}

NoResult == [code |-> -1, stderr |-> <<>>]

NotExited == [status |-> -1, message |-> <<>>]

VARIABLES
    mainPc,        \* Prog.serve(): "prog"; manage(): "start", "build", "check",
                   \* "joinall"; then "exited" or "killed"
    pc,            \* [Workers -> position of the greenlet]
    watch_ev,      \* self.watch_ev flag
    render_ev,     \* self.render_ev flag
    result,        \* the result of the build() call just returned
    exited,        \* how the process ended: [status, message], or NotExited
    conns,         \* the web server's open push connections
    termReceived,  \* shutdown_handler has run
    nChanges,      \* history: filesystem changes made so far
    nBuilds,       \* history: build() invocations started so far
    pending,       \* history: watch_ev.set() calls since the last watch_ev.clear()
    burst,         \* history: set() calls made during the last completed render build,
                   \*          0 once a later set() has been made
    follow,        \* history: builds started since that build completed
    unsignalled,   \* history: callers whose completed build render_ev.set() has not followed
    hist,          \* history: the last render build that returned: [failed, warned]
    aborted,       \* history: shutdown_handler killed render inside build()
    root,          \* the source directory: "exists", "missing", or "created" by check_dependencies
    nDone,         \* history: render builds that have returned
    delivered,     \* history: [Observed -> reload notifications received]
    present,       \* history: clients connected at every render build completion so far
    nSets,         \* history: watch_ev.set() calls made so far
    nFresh,        \* history: set() calls that found watch_ev unset
    readyFor,      \* history: clients connected when a build not yet notified completed
    nSignals,      \* history: render_ev.set() calls made so far
    duringInitial  \* history: qualifying changes made while the initial build ran

vars == <<mainPc, pc, watch_ev, render_ev, result, exited, conns, termReceived,
          nChanges, nBuilds, pending, burst, follow, unsignalled, hist, aborted,
          root,
          nDone,
          delivered,
          present,
          nSets,
          nFresh,
          readyFor,
          nSignals,
          duringInitial>>

history == <<nChanges, nBuilds, pending, burst, follow, unsignalled, hist, aborted>>

\* --------------------------------------------------------------- helpers

RECURSIVE LStrip(_)
LStrip(s) == IF s # <<>> /\ Head(s) \in Whitespace THEN LStrip(Tail(s)) ELSE s

RECURSIVE RStrip(_)
RStrip(s) ==
    IF s # <<>> /\ s[Len(s)] \in Whitespace THEN RStrip(SubSeq(s, 1, Len(s) - 1)) ELSE s

\* str.strip()
Strip(s) == RStrip(LStrip(s))

\* build(): "if result.stderr.strip(): logger.warning(...)"
BuildWarns(stderr) == Strip(stderr) # <<>>

\* sys.exit(arg): None exits 0, an integer exits with it, any other object is
\* printed and exits 1.
SysExit(arg) ==
    IF arg.kind = "none" THEN [status |-> 0, message |-> <<>>]
    ELSE IF arg.kind = "int" THEN [status |-> arg.val, message |-> <<>>]
    ELSE [status |-> 1, message |-> arg.val]

\* fs_event_ctx(path, extensions): only events of files with an allowed suffix
\* are surfaced.
Qualifies(suffix) == suffix \in extensions

\* Build invocations in flight: tasks inside build()'s subprocess call.
InFlight ==
    (IF mainPc = "build" THEN 1 ELSE 0) + (IF pc["render"] = "building" THEN 1 ELSE 0)

\* The cooperative scheduler: a task that is between two suspension points
\* holds the processor.
MainRunning == mainPc \in {"prog", "start", "check"}

RenderRunning == pc["render"] \in {"wait_call", "clear", "build_call", "set_ready"}

Alive == mainPc \notin {"exited", "killed"}

\* The hub may switch to a suspended task.
HubIdle == Alive /\ ~MainRunning /\ ~RenderRunning

Init ==
    /\ mainPc = "prog"
    /\ pc = [w \in Workers |-> "unspawned"]
    /\ watch_ev = FALSE
    /\ render_ev = FALSE
    /\ result = NoResult
    /\ exited = NotExited
    /\ conns = {}
    /\ termReceived = FALSE
    /\ nChanges = 0
    /\ nBuilds = 0
    /\ pending = 0
    /\ burst = 0
    /\ follow = 0
    /\ unsignalled = {}
    /\ hist = [failed |-> FALSE, warned |-> FALSE]
    /\ aborted = FALSE
    /\ root \in {"exists", "missing"}
    /\ nDone = 0
    /\ delivered = [c \in Observed |-> 0]
    /\ present = Observed
    /\ nSets = 0
    /\ nFresh = 0
    /\ readyFor = {}
    /\ nSignals = 0
    /\ duringInitial = 0

\* ------------------------------------------------------------ Prog.serve()

\* Variant: a missing source directory ends the process.
check_dependenciesStrict ==
    /\ mainPc = "prog"
    /\ IF root = "missing"
       THEN /\ mainPc' = "exited"
            /\ exited' = SysExit([kind |-> "str", val |-> <<"x">>])
       ELSE /\ mainPc' = "start"
            /\ UNCHANGED exited
    /\ UNCHANGED <<pc, watch_ev, render_ev, result, conns, termReceived, history,
                   root>>
    /\ UNCHANGED nDone
    /\ UNCHANGED delivered
    /\ UNCHANGED present
    /\ UNCHANGED nSets
    /\ UNCHANGED nFresh
    /\ UNCHANGED readyFor
    /\ UNCHANGED nSignals
    /\ UNCHANGED duringInitial

\* Prog.serve(): check_dependencies() creates a missing source directory (and
\* its index.rst and conf.py), then manage() is called.
check_dependencies ==
    /\ mainPc = "prog"
    /\ mainPc' = "start"
    /\ root' = IF root = "missing" THEN "created" ELSE root
    /\ UNCHANGED <<pc, watch_ev, render_ev, result, exited, conns, termReceived,
                   history>>
    /\ UNCHANGED nDone
    /\ UNCHANGED delivered
    /\ UNCHANGED present
    /\ UNCHANGED nSets
    /\ UNCHANGED nFresh
    /\ UNCHANGED readyFor
    /\ UNCHANGED nSignals
    /\ UNCHANGED duringInitial

\* ------------------------------------------------------------- manage()

\* Variant: the workers are spawned before the initial build.
ManageBuildCallAfterSpawn ==
    /\ mainPc = "start"
    /\ mainPc' = "build"
    /\ pc' = [w \in Workers |-> "spawned"]
    /\ nBuilds' = nBuilds + 1
    /\ UNCHANGED <<watch_ev, render_ev, result, exited, conns, termReceived,
                   nChanges, pending, burst, follow, unsignalled, hist, aborted>>
    /\ UNCHANGED root
    /\ UNCHANGED nDone
    /\ UNCHANGED delivered
    /\ UNCHANGED present
    /\ UNCHANGED nSets
    /\ UNCHANGED nFresh
    /\ UNCHANGED readyFor
    /\ UNCHANGED nSignals
    /\ UNCHANGED duringInitial

\* manage(): "result = self.build()" up to the subprocess call.
ManageBuildCall ==
    /\ mainPc = "start"
    /\ mainPc' = "build"
    /\ nBuilds' = nBuilds + 1
    /\ UNCHANGED <<pc, watch_ev, render_ev, result, exited, conns, termReceived,
                   nChanges, pending, burst, follow, unsignalled, hist, aborted>>
    /\ UNCHANGED root
    /\ UNCHANGED nDone
    /\ UNCHANGED delivered
    /\ UNCHANGED present
    /\ UNCHANGED nSets
    /\ UNCHANGED nFresh
    /\ UNCHANGED readyFor
    /\ UNCHANGED nSignals
    /\ UNCHANGED duringInitial

\* The initial build's subprocess ends; build() logs and returns the result.
ManageBuildReturn(code, stderr) ==
    /\ mainPc = "build"
    /\ mainPc' = "check"
    /\ result' = [code |-> code, stderr |-> stderr]
    /\ unsignalled' = unsignalled \cup {"manage"}
    /\ UNCHANGED <<pc, watch_ev, render_ev, exited, conns, termReceived,
                   nChanges, nBuilds, pending, burst, follow, hist, aborted>>
    /\ UNCHANGED root
    /\ UNCHANGED nDone
    /\ UNCHANGED delivered
    /\ UNCHANGED present
    /\ UNCHANGED nSets
    /\ UNCHANGED nFresh
    /\ UNCHANGED readyFor
    /\ UNCHANGED nSignals
    /\ UNCHANGED duringInitial

\* Variant: the exit code of the initial build is not looked at.
ManageCheckIgnoresCode ==
    /\ mainPc = "check"
    /\ mainPc' = "joinall"
    /\ pc' = [w \in Workers |-> "spawned"]
    /\ result' = NoResult
    /\ UNCHANGED <<watch_ev, render_ev, exited, conns, termReceived, history>>
    /\ UNCHANGED root
    /\ UNCHANGED nDone
    /\ UNCHANGED delivered
    /\ UNCHANGED present
    /\ UNCHANGED nSets
    /\ UNCHANGED nFresh
    /\ UNCHANGED readyFor
    /\ UNCHANGED nSignals
    /\ UNCHANGED duringInitial

\* manage(): exit on a failed initial build, else spawn the workers, install
\* the SIGTERM handler and join the workers.
ManageCheck ==
    /\ mainPc = "check"
    /\ IF result.code # 0
       THEN /\ mainPc' = "exited"
            /\ exited' = SysExit([kind |-> "str", val |-> result.stderr])
            /\ UNCHANGED pc
       ELSE /\ mainPc' = "joinall"
            /\ pc' = [w \in Workers |-> "spawned"]
            /\ UNCHANGED exited
    /\ result' = NoResult
    /\ UNCHANGED <<watch_ev, render_ev, conns, termReceived, history>>
    /\ UNCHANGED root
    /\ UNCHANGED nDone
    /\ UNCHANGED delivered
    /\ UNCHANGED present
    /\ UNCHANGED nSets
    /\ UNCHANGED nFresh
    /\ UNCHANGED readyFor
    /\ UNCHANGED nSignals
    /\ UNCHANGED duringInitial

\* manage(): joinall(workers) returns once every worker is dead; sys.exit(0).
ManageJoined ==
    /\ mainPc = "joinall"
    /\ ~RenderRunning
    /\ \A w \in Workers : pc[w] = "dead"
    /\ mainPc' = "exited"
    /\ exited' = SysExit([kind |-> "int", val |-> 0])
    /\ UNCHANGED <<pc, watch_ev, render_ev, result, conns, termReceived, history>>
    /\ UNCHANGED root
    /\ UNCHANGED nDone
    /\ UNCHANGED delivered
    /\ UNCHANGED present
    /\ UNCHANGED nSets
    /\ UNCHANGED nFresh
    /\ UNCHANGED readyFor
    /\ UNCHANGED nSignals
    /\ UNCHANGED duringInitial

\* Variant: the handler lets a render greenlet that is inside build() live.
shutdown_handlerGraceful ==
    /\ mainPc = "joinall"
    /\ HubIdle
    /\ ~termReceived
    /\ termReceived' = TRUE
    /\ pc' = [w \in Workers |->
                IF w = "render" /\ pc[w] = "building" THEN pc[w] ELSE "dead"]
    /\ conns' = {}
    /\ aborted' = FALSE
    /\ UNCHANGED <<mainPc, watch_ev, render_ev, result, exited,
                   nChanges, nBuilds, pending, burst, follow, unsignalled, hist>>
    /\ UNCHANGED root
    /\ UNCHANGED nDone
    /\ UNCHANGED delivered
    /\ present' = {}
    /\ UNCHANGED nSets
    /\ UNCHANGED nFresh
    /\ UNCHANGED readyFor
    /\ UNCHANGED nSignals
    /\ UNCHANGED duringInitial

\* Variant: the handler kills the watch and serve greenlets only.
shutdown_handlerSparesRender ==
    /\ mainPc = "joinall"
    /\ HubIdle
    /\ ~termReceived
    /\ termReceived' = TRUE
    /\ pc' = [w \in Workers |-> IF w = "render" THEN pc[w] ELSE "dead"]
    /\ conns' = {}
    /\ aborted' = FALSE
    /\ UNCHANGED <<mainPc, watch_ev, render_ev, result, exited,
                   nChanges, nBuilds, pending, burst, follow, unsignalled, hist>>
    /\ UNCHANGED root
    /\ UNCHANGED nDone
    /\ UNCHANGED delivered
    /\ present' = {}
    /\ UNCHANGED nSets
    /\ UNCHANGED nFresh
    /\ UNCHANGED readyFor
    /\ UNCHANGED nSignals
    /\ UNCHANGED duringInitial

\* Variant: the handler is installed before the initial build.
shutdown_handlerInstalledEarly ==
    /\ mainPc \in {"build", "joinall"}
    /\ HubIdle
    /\ ~termReceived
    /\ termReceived' = TRUE
    /\ pc' = [w \in Workers |-> "dead"]
    /\ conns' = {}
    /\ aborted' = (pc["render"] = "building")
    /\ UNCHANGED <<mainPc, watch_ev, render_ev, result, exited,
                   nChanges, nBuilds, pending, burst, follow, unsignalled, hist>>
    /\ UNCHANGED root
    /\ UNCHANGED nDone
    /\ UNCHANGED delivered
    /\ present' = {}
    /\ UNCHANGED nSets
    /\ UNCHANGED nFresh
    /\ UNCHANGED readyFor
    /\ UNCHANGED nSignals
    /\ UNCHANGED duringInitial

\* shutdown_handler(): killall(workers) raises GreenletExit in every worker
\* at its suspension point and returns when all of them are dead.
shutdown_handler ==
    /\ mainPc = "joinall"
    /\ HubIdle
    /\ ~termReceived
    /\ termReceived' = TRUE
    /\ pc' = [w \in Workers |-> "dead"]
    /\ conns' = {}
    /\ aborted' = (pc["render"] = "building")
    /\ UNCHANGED <<mainPc, watch_ev, render_ev, result, exited,
                   nChanges, nBuilds, pending, burst, follow, unsignalled, hist>>
    /\ UNCHANGED root
    /\ UNCHANGED nDone
    /\ UNCHANGED delivered
    /\ present' = {}
    /\ UNCHANGED nSets
    /\ UNCHANGED nFresh
    /\ UNCHANGED readyFor
    /\ UNCHANGED nSignals
    /\ UNCHANGED duringInitial

\* SIGTERM before "signal(SIGTERM, shutdown_handler)" has run: the default
\* disposition ends the process.
SigtermDefault ==
    /\ mainPc \in {"start", "build"}
    /\ mainPc' = "killed"
    /\ exited' = [status |-> 128 + SIGTERM, message |-> <<>>]
    /\ UNCHANGED <<pc, watch_ev, render_ev, result, conns, termReceived, history>>
    /\ UNCHANGED root
    /\ UNCHANGED nDone
    /\ UNCHANGED delivered
    /\ UNCHANGED present
    /\ UNCHANGED nSets
    /\ UNCHANGED nFresh
    /\ UNCHANGED readyFor
    /\ UNCHANGED nSignals
    /\ UNCHANGED duringInitial

\* ---------------------------------------------------------------- watch()

\* The watch greenlet starts: enters fs_event_ctx and waits for an event.
WatchStart ==
    /\ HubIdle
    /\ pc["watch"] = "spawned"
    /\ pc' = [pc EXCEPT !["watch"] = "iterating"]
    /\ UNCHANGED <<mainPc, watch_ev, render_ev, result, exited, conns, termReceived,
                   history>>
    /\ UNCHANGED root
    /\ UNCHANGED nDone
    /\ UNCHANGED delivered
    /\ UNCHANGED present
    /\ UNCHANGED nSets
    /\ UNCHANGED nFresh
    /\ UNCHANGED readyFor
    /\ UNCHANGED nSignals
    /\ UNCHANGED duringInitial

\* Variant: the events are not filtered by suffix.
WatchEventUnfiltered(suffix) ==
    /\ HubIdle
    /\ pc["watch"] = "iterating"
    /\ nChanges < MaxChanges
    /\ nChanges' = nChanges + 1
    /\ watch_ev' = TRUE
    /\ pending' = pending + 1
    /\ burst' = 0
    /\ nSets' = nSets + 1
    /\ nFresh' = IF watch_ev THEN nFresh ELSE nFresh + 1
    /\ UNCHANGED <<mainPc, pc, render_ev, result, exited, conns, termReceived,
                   nBuilds, follow, unsignalled, hist, aborted>>
    /\ UNCHANGED root
    /\ UNCHANGED nDone
    /\ UNCHANGED delivered
    /\ UNCHANGED present
    /\ UNCHANGED readyFor
    /\ UNCHANGED nSignals
    /\ UNCHANGED duringInitial

\* A file changes while watch() iterates: a qualifying event is logged and
\* sets watch_ev, any other is filtered out.
WatchEvent(suffix) ==
    /\ HubIdle
    /\ pc["watch"] = "iterating"
    /\ nChanges < MaxChanges
    /\ nChanges' = nChanges + 1
    /\ IF Qualifies(suffix)
       THEN /\ watch_ev' = TRUE
            /\ pending' = pending + 1
            /\ burst' = 0
            /\ nSets' = nSets + 1
            /\ nFresh' = IF watch_ev THEN nFresh ELSE nFresh + 1
       ELSE UNCHANGED <<watch_ev, pending, burst, nSets, nFresh>>
    /\ UNCHANGED <<mainPc, pc, render_ev, result, exited, conns, termReceived,
                   nBuilds, follow, unsignalled, hist, aborted>>
    /\ UNCHANGED root
    /\ UNCHANGED nDone
    /\ UNCHANGED delivered
    /\ UNCHANGED present
    /\ UNCHANGED readyFor
    /\ UNCHANGED nSignals
    /\ UNCHANGED duringInitial

\* A file changes while no watch() iterates: nothing observes it.
UnwatchedChange(suffix) ==
    /\ Alive
    /\ ~MainRunning
    /\ ~RenderRunning
    /\ pc["watch"] # "iterating"
    /\ nChanges < MaxChanges
    /\ nChanges' = nChanges + 1
    /\ UNCHANGED <<mainPc, pc, watch_ev, render_ev, result, exited, conns,
                   termReceived, nBuilds, pending, burst, follow, unsignalled, hist,
                   aborted>>
    /\ UNCHANGED root
    /\ UNCHANGED nDone
    /\ UNCHANGED delivered
    /\ UNCHANGED present
    /\ UNCHANGED nSets
    /\ UNCHANGED nFresh
    /\ UNCHANGED readyFor
    /\ UNCHANGED nSignals
    /\ duringInitial' = IF Qualifies(suffix) /\ mainPc = "build"
                        THEN duringInitial + 1 ELSE duringInitial

\* --------------------------------------------------------------- render()

\* The render greenlet starts and reaches the top of its loop.
RenderStart ==
    /\ HubIdle
    /\ pc["render"] = "spawned"
    /\ pc' = [pc EXCEPT !["render"] = "wait_call"]
    /\ UNCHANGED <<mainPc, watch_ev, render_ev, result, exited, conns, termReceived,
                   history>>
    /\ UNCHANGED root
    /\ UNCHANGED nDone
    /\ UNCHANGED delivered
    /\ UNCHANGED present
    /\ UNCHANGED nSets
    /\ UNCHANGED nFresh
    /\ UNCHANGED readyFor
    /\ UNCHANGED nSignals
    /\ UNCHANGED duringInitial

\* render(): "self.watch_ev.wait()" returns at once when the flag is set and
\* suspends the greenlet otherwise.
RenderWait ==
    /\ Alive
    /\ pc["render"] = "wait_call"
    /\ pc' = [pc EXCEPT !["render"] = IF watch_ev THEN "clear" ELSE "waiting"]
    /\ UNCHANGED <<mainPc, watch_ev, render_ev, result, exited, conns, termReceived,
                   history>>
    /\ UNCHANGED root
    /\ UNCHANGED nDone
    /\ UNCHANGED delivered
    /\ UNCHANGED present
    /\ UNCHANGED nSets
    /\ UNCHANGED nFresh
    /\ UNCHANGED readyFor
    /\ UNCHANGED nSignals
    /\ UNCHANGED duringInitial

\* The hub wakes the greenlet suspended in wait() once the flag is set.
RenderWake ==
    /\ HubIdle
    /\ pc["render"] = "waiting"
    /\ watch_ev
    /\ pc' = [pc EXCEPT !["render"] = "clear"]
    /\ UNCHANGED <<mainPc, watch_ev, render_ev, result, exited, conns, termReceived,
                   history>>
    /\ UNCHANGED root
    /\ UNCHANGED nDone
    /\ UNCHANGED delivered
    /\ UNCHANGED present
    /\ UNCHANGED nSets
    /\ UNCHANGED nFresh
    /\ UNCHANGED readyFor
    /\ UNCHANGED nSignals
    /\ UNCHANGED duringInitial

\* Variant: the flag is not cleared.
RenderClearForgotten ==
    /\ Alive
    /\ pc["render"] = "clear"
    /\ pc' = [pc EXCEPT !["render"] = "build_call"]
    /\ UNCHANGED <<mainPc, watch_ev, render_ev, result, exited, conns, termReceived,
                   history>>
    /\ UNCHANGED root
    /\ UNCHANGED nDone
    /\ UNCHANGED delivered
    /\ UNCHANGED present
    /\ UNCHANGED nSets
    /\ UNCHANGED nFresh
    /\ UNCHANGED readyFor
    /\ UNCHANGED nSignals
    /\ UNCHANGED duringInitial

\* render(): "self.watch_ev.clear()".
RenderClear ==
    /\ Alive
    /\ pc["render"] = "clear"
    /\ watch_ev' = FALSE
    /\ pending' = 0
    /\ pc' = [pc EXCEPT !["render"] = "build_call"]
    /\ UNCHANGED <<mainPc, render_ev, result, exited, conns, termReceived,
                   nChanges, nBuilds, burst, follow, unsignalled, hist, aborted>>
    /\ UNCHANGED root
    /\ UNCHANGED nDone
    /\ UNCHANGED delivered
    /\ UNCHANGED present
    /\ UNCHANGED nSets
    /\ UNCHANGED nFresh
    /\ UNCHANGED readyFor
    /\ UNCHANGED nSignals
    /\ UNCHANGED duringInitial

\* Variant: render_ev is set before the build is invoked.
RenderBuildCallSignalsEarly ==
    /\ Alive
    /\ pc["render"] = "build_call"
    /\ pc' = [pc EXCEPT !["render"] = "building"]
    /\ nBuilds' = nBuilds + 1
    /\ follow' = IF burst > 0 THEN follow + 1 ELSE follow
    /\ UNCHANGED <<mainPc, watch_ev, result, exited, conns, termReceived,
                   nChanges, pending, burst, unsignalled, hist, aborted>>
    /\ UNCHANGED root
    /\ UNCHANGED nDone
    /\ UNCHANGED delivered
    /\ UNCHANGED present
    /\ UNCHANGED nSets
    /\ UNCHANGED nFresh
    /\ UNCHANGED readyFor
    /\ render_ev' = TRUE
    /\ nSignals' = nSignals + 1
    /\ UNCHANGED duringInitial

\* render(): "result = self.build()" up to the subprocess call.
RenderBuildCall ==
    /\ Alive
    /\ pc["render"] = "build_call"
    /\ pc' = [pc EXCEPT !["render"] = "building"]
    /\ nBuilds' = nBuilds + 1
    /\ follow' = IF burst > 0 THEN follow + 1 ELSE follow
    /\ UNCHANGED <<mainPc, watch_ev, render_ev, result, exited, conns, termReceived,
                   nChanges, pending, burst, unsignalled, hist, aborted>>
    /\ UNCHANGED root
    /\ UNCHANGED nDone
    /\ UNCHANGED delivered
    /\ UNCHANGED present
    /\ UNCHANGED nSets
    /\ UNCHANGED nFresh
    /\ UNCHANGED readyFor
    /\ UNCHANGED nSignals
    /\ UNCHANGED duringInitial

\* The subprocess of a render build ends; build() logs a warning when the
\* stripped stderr is not empty, and returns the result.
RenderBuildReturn(code, stderr) ==
    /\ HubIdle
    /\ pc["render"] = "building"
    /\ pc' = [pc EXCEPT !["render"] = "set_ready"]
    /\ result' = [code |-> code, stderr |-> stderr]
    /\ hist' = [failed |-> code # 0, warned |-> BuildWarns(stderr)]
    /\ unsignalled' = unsignalled \cup {"render"}
    /\ burst' = IF pending > 0 THEN pending ELSE burst
    /\ follow' = IF pending > 0 THEN 0 ELSE follow
    /\ UNCHANGED <<mainPc, watch_ev, render_ev, exited, conns, termReceived,
                   nChanges, nBuilds, pending, aborted>>
    /\ UNCHANGED root
    /\ UNCHANGED delivered
    /\ nDone' = nDone + 1
    /\ present' = present \cap conns
    /\ UNCHANGED nSets
    /\ UNCHANGED nFresh
    /\ readyFor' = (IF render_ev THEN readyFor ELSE {}) \cup (conns \cap Observed)
    /\ UNCHANGED nSignals
    /\ UNCHANGED duringInitial

\* Variant: watch_ev is cleared once more after the build.
RenderSetReadyClears ==
    /\ Alive
    /\ pc["render"] = "set_ready"
    /\ render_ev' = TRUE
    /\ watch_ev' = FALSE
    /\ unsignalled' = {}
    /\ result' = NoResult
    /\ pc' = [pc EXCEPT !["render"] = "wait_call"]
    /\ UNCHANGED <<mainPc, exited, conns, termReceived,
                   nChanges, nBuilds, pending, burst, follow, hist, aborted>>
    /\ UNCHANGED root
    /\ UNCHANGED nDone
    /\ UNCHANGED delivered
    /\ UNCHANGED present
    /\ UNCHANGED nSets
    /\ UNCHANGED nFresh
    /\ UNCHANGED readyFor
    /\ nSignals' = nSignals + 1
    /\ UNCHANGED duringInitial

\* Variant: render_ev is set after a successful build only.
RenderSetReadyOnSuccess ==
    /\ Alive
    /\ pc["render"] = "set_ready"
    /\ render_ev' = (render_ev \/ result.code = 0)
    /\ unsignalled' = IF result.code = 0 THEN {} ELSE unsignalled
    /\ result' = NoResult
    /\ pc' = [pc EXCEPT !["render"] = "wait_call"]
    /\ UNCHANGED <<mainPc, watch_ev, exited, conns, termReceived,
                   nChanges, nBuilds, pending, burst, follow, hist, aborted>>
    /\ UNCHANGED root
    /\ UNCHANGED nDone
    /\ UNCHANGED delivered
    /\ UNCHANGED present
    /\ UNCHANGED nSets
    /\ UNCHANGED nFresh
    /\ UNCHANGED readyFor
    /\ nSignals' = IF result.code = 0 THEN nSignals + 1 ELSE nSignals
    /\ UNCHANGED duringInitial

\* Variant: a failed build ends the loop.
RenderSetReadyStopsOnFailure ==
    /\ Alive
    /\ pc["render"] = "set_ready"
    /\ render_ev' = (render_ev \/ result.code = 0)
    /\ unsignalled' = IF result.code = 0 THEN {} ELSE unsignalled
    /\ result' = NoResult
    /\ pc' = [pc EXCEPT !["render"] = IF result.code = 0 THEN "wait_call" ELSE "dead"]
    /\ UNCHANGED <<mainPc, watch_ev, exited, conns, termReceived,
                   nChanges, nBuilds, pending, burst, follow, hist, aborted>>
    /\ UNCHANGED root
    /\ UNCHANGED nDone
    /\ UNCHANGED delivered
    /\ UNCHANGED present
    /\ UNCHANGED nSets
    /\ UNCHANGED nFresh
    /\ UNCHANGED readyFor
    /\ nSignals' = IF result.code = 0 THEN nSignals + 1 ELSE nSignals
    /\ UNCHANGED duringInitial

\* render(): "logger.debug(result.stdout); self.render_ev.set()", then the
\* loop starts over.
RenderSetReady ==
    /\ Alive
    /\ pc["render"] = "set_ready"
    /\ render_ev' = TRUE
    /\ unsignalled' = {}
    /\ result' = NoResult
    /\ pc' = [pc EXCEPT !["render"] = "wait_call"]
    /\ UNCHANGED <<mainPc, watch_ev, exited, conns, termReceived,
                   nChanges, nBuilds, pending, burst, follow, hist, aborted>>
    /\ UNCHANGED root
    /\ UNCHANGED nDone
    /\ UNCHANGED delivered
    /\ UNCHANGED present
    /\ UNCHANGED nSets
    /\ UNCHANGED nFresh
    /\ UNCHANGED readyFor
    /\ nSignals' = nSignals + 1
    /\ UNCHANGED duringInitial

\* ---------------------------------------------------------------- serve()

\* The serve greenlet starts: Webserver(...).run() listens.
ServeStart ==
    /\ HubIdle
    /\ pc["serve"] = "spawned"
    /\ pc' = [pc EXCEPT !["serve"] = "serving"]
    /\ UNCHANGED <<mainPc, watch_ev, render_ev, result, exited, conns, termReceived,
                   history>>
    /\ UNCHANGED root
    /\ UNCHANGED nDone
    /\ UNCHANGED delivered
    /\ UNCHANGED present
    /\ UNCHANGED nSets
    /\ UNCHANGED nFresh
    /\ UNCHANGED readyFor
    /\ UNCHANGED nSignals
    /\ UNCHANGED duringInitial

\* Variant: a new connection is sent the last notification again.
ServeAcceptReplays(c) ==
    /\ HubIdle
    /\ pc["serve"] = "serving"
    /\ c \notin conns
    /\ conns' = conns \cup {c}
    /\ UNCHANGED <<mainPc, pc, watch_ev, render_ev, result, exited, termReceived,
                   history>>
    /\ UNCHANGED root
    /\ UNCHANGED nDone
    /\ delivered' = [o \in Observed |->
                      IF o = c /\ nDone > 0 THEN delivered[o] + 1 ELSE delivered[o]]
    /\ UNCHANGED present
    /\ UNCHANGED nSets
    /\ UNCHANGED nFresh
    /\ UNCHANGED readyFor
    /\ UNCHANGED nSignals
    /\ UNCHANGED duringInitial

\* Webserver: a browser tab opens a push connection.
ServeAccept(c) ==
    /\ HubIdle
    /\ pc["serve"] = "serving"
    /\ c \notin conns
    /\ conns' = conns \cup {c}
    /\ UNCHANGED <<mainPc, pc, watch_ev, render_ev, result, exited, termReceived,
                   history>>
    /\ UNCHANGED root
    /\ UNCHANGED nDone
    /\ UNCHANGED delivered
    /\ UNCHANGED present
    /\ UNCHANGED nSets
    /\ UNCHANGED nFresh
    /\ UNCHANGED readyFor
    /\ UNCHANGED nSignals
    /\ UNCHANGED duringInitial

\* Webserver: a push connection closes.
ServeClose(c) ==
    /\ HubIdle
    /\ pc["serve"] = "serving"
    /\ c \in conns
    /\ conns' = conns \ {c}
    /\ UNCHANGED <<mainPc, pc, watch_ev, render_ev, result, exited, termReceived,
                   history>>
    /\ UNCHANGED root
    /\ UNCHANGED nDone
    /\ UNCHANGED delivered
    /\ present' = present \ {c}
    /\ UNCHANGED nSets
    /\ UNCHANGED nFresh
    /\ UNCHANGED readyFor
    /\ UNCHANGED nSignals
    /\ UNCHANGED duringInitial

\* Webserver: render_ev is observed set, cleared, and a reload notification is
\* broadcast to the open connections.
ServeBroadcast ==
    /\ HubIdle
    /\ pc["serve"] = "serving"
    /\ render_ev
    /\ render_ev' = FALSE
    /\ UNCHANGED <<mainPc, pc, watch_ev, result, exited, conns, termReceived,
                   history>>
    /\ UNCHANGED root
    /\ UNCHANGED nDone
    /\ UNCHANGED present
    /\ delivered' = [c \in Observed |-> IF c \in conns THEN delivered[c] + 1 ELSE delivered[c]]
    /\ UNCHANGED nSets
    /\ UNCHANGED nFresh
    /\ readyFor' = {}
    /\ UNCHANGED nSignals
    /\ UNCHANGED duringInitial

\* ------------------------------------------------------------------ system

RenderStep ==
    \/ RenderStart
    \/ RenderWait
    \/ RenderWake
    \/ RenderClear
    \/ RenderBuildCall
    \/ RenderSetReady

BuildEnds ==
    \E code \in ExitCodes, stderr \in StderrTexts : RenderBuildReturn(code, stderr)

Next ==
    \/ check_dependencies
    \/ ManageBuildCall
    \/ \E code \in ExitCodes, stderr \in StderrTexts : ManageBuildReturn(code, stderr)
    \/ ManageCheck
    \/ ManageJoined
    \/ shutdown_handler
    \/ SigtermDefault
    \/ WatchStart
    \/ \E suffix \in Suffixes : WatchEvent(suffix)
    \/ \E suffix \in Suffixes : UnwatchedChange(suffix)
    \/ RenderStep
    \/ BuildEnds
    \/ ServeStart
    \/ \E c \in Clients : ServeAccept(c)
    \/ \E c \in Clients : ServeClose(c)
    \/ ServeBroadcast

Spec == Init /\ [][Next]_vars

\* The render greenlet is scheduled whenever it can run and every build ends.
FairSpec == Spec /\ WF_vars(RenderStep) /\ WF_vars(BuildEnds)

\* joinall() returns to manage() once the workers are dead; nothing is
\* assumed about the builds ending or about the workers being scheduled.
ShutdownSpec == Spec /\ WF_vars(ManageJoined)

\* ------------------------------------------------------------------ claims

\* C1: at most one invocation of the external build command is in flight in
\* every reachable state.
C1_AtMostOneBuild == InFlight <= 1

\* A render build in flight while watch events keep arriving.
C1_Witness == pc["render"] = "building" /\ InFlight = 1 /\ pending >= 2

\* A further build is scheduled: the flag is set, or render() is past its
\* wait and has not yet started the build.
BuildOwed == watch_ev \/ pc["render"] \in {"clear", "build_call"}

\* C2: after N >= 1 set() calls made during one render build, and no set()
\* since, at most one further build has been started; as long as none has
\* been started one is scheduled and it does start; once it has been started
\* none is scheduled.
C2_Coalescing ==
    /\ [](burst >= 1 =>
            /\ follow <= 1
            /\ (follow = 0 => BuildOwed)
            /\ (follow = 1 => ~BuildOwed))
    /\ ((burst >= 1 /\ follow = 0) ~> (burst >= 1 /\ follow = 1))

\* Two changes arrived during one build, one further build ran and none is
\* scheduled after it.
C2_Witness ==
    burst >= 2 /\ follow = 1 /\ pc["render"] = "waiting" /\ nChanges = MaxChanges

\* C3: watch_ev is set exactly when a set() has been made since the last
\* clear(); a build starts with no set() left unconsumed; and, the render
\* task being scheduled fairly and every build ending, every set() is followed
\* by a build started after a later clear(), unless a termination request
\* arrives.
C3_NoLostChange ==
    /\ [](watch_ev <=> pending > 0)
    /\ [](pc["render"] \in {"build_call"} => pending = 0)
    /\ ((watch_ev /\ ~termReceived)
          ~> ((pc["render"] = "building" /\ ~watch_ev) \/ termReceived))

\* A change was processed during a build and the next build has started.
C3_Witness ==
    burst >= 1 /\ follow = 1 /\ pc["render"] = "building" /\ ~watch_ev

\* C4: watch_ev is cleared only by the step of render() between the return
\* of wait() and the build call, while no build is in flight; every build of
\* render() is invoked with the flag cleared; a flag set during a build stays
\* set until render() has waited again.
C4_ClearBeforeBuild ==
    /\ [][(watch_ev /\ ~watch_ev') =>
            (pc["render"] = "clear" /\ pc'["render"] = "build_call" /\ InFlight = 0)]_vars
    /\ [][(pc["render"] # "building" /\ pc'["render"] = "building") =>
            (pc["render"] = "build_call" /\ ~watch_ev)]_vars
    /\ [][(pc["render"] \in {"building", "set_ready"} /\ watch_ev) => watch_ev']_vars

\* A flag set during a build is still set when render() calls wait() again.
C4_Witness == pc["render"] = "wait_call" /\ watch_ev /\ nBuilds >= 2

\* C5 (as amended): every build of the render() loop that returns, with a zero
\* or a nonzero exit code, is followed by render_ev.set() before render() does
\* anything else, hence before the next build starts; the initial build of
\* manage() is not: render_ev stays unset until a render build has returned.
C5_RenderBuildSignalled ==
    /\ ("render" \in unsignalled => pc["render"] = "set_ready")
    /\ (pc["render"] = "building" => "render" \notin unsignalled)
    /\ (render_ev => nBuilds >= 2)
    /\ (nBuilds = 1 => unsignalled \subseteq {"manage"})

\* render_ev has been set after a render build that failed.
C5_Witness == hist.failed /\ render_ev /\ pc["render"] = "wait_call"

\* C5 (as stated): every completed build() invocation, the initial one of
\* manage() included, is followed by render_ev.set() before the next build
\* starts.
C5_EveryBuildSignalled == pc["render"] = "building" => unsignalled = {}

\* C6: a nonzero exit code of the initial build ends the process with a
\* nonzero status and the captured stderr as message; no worker is spawned,
\* no connection is accepted, no second build runs, and nothing runs after
\* the exit.
C6_InitialFailureFatal ==
    /\ [][(mainPc = "check" /\ result.code # 0) =>
            /\ mainPc' = "exited"
            /\ exited'.status # 0
            /\ exited'.message = result.stderr]_vars
    /\ []((mainPc = "exited" /\ exited.status # 0) =>
            /\ \A w \in Workers : pc[w] = "unspawned"
            /\ conns = {}
            /\ nBuilds = 1)
    /\ []((\A w \in Workers : pc[w] = "unspawned") => conns = {})
    /\ [][Alive]_vars

\* The process has exited with status 1 and a stderr text as message.
C6_Witness ==
    mainPc = "exited" /\ exited.status = 1 /\ exited.message = <<"x", " ">>

\* C7: a nonzero exit code of a render build neither ends the render loop nor
\* the process; render() sets render_ev and calls wait() again, and a change
\* processed later still starts a build.
C7_SteadyFailureNonFatal ==
    /\ []((hist.failed /\ ~termReceived) => (pc["render"] # "dead" /\ mainPc = "joinall"))
    /\ [][(pc["render"] = "set_ready" /\ result.code # 0) =>
            (render_ev' /\ pc'["render"] = "wait_call")]_vars
    /\ ((hist.failed /\ pc["render"] = "waiting" /\ watch_ev)
          ~> (pc["render"] = "building" \/ termReceived))

\* A build is running that was started after a render build failed.
C7_Witness == hist.failed /\ pc["render"] = "building" /\ nBuilds >= 3

\* C8 (as stated): every render build that returns a nonzero exit code has
\* logged a warning.
C8_FailureWarned == hist.failed => hist.warned

C10_NoBuildAfterShutdown ==
    [][(termReceived \/ termReceived') =>
         (nBuilds' = nBuilds /\ pc'["render"] # "building")]_vars

\* The request arrived with watch_ev set and no build in flight, and the
\* process has exited.
C10_Witness ==
    termReceived /\ watch_ev /\ ~aborted /\ nChanges > pending /\ mainPc = "exited"

\* C11: after shutdown_handler has received the termination request the
\* process exits with status 0, whatever the workers were suspended in (the
\* wait on watch_ev, a build that does not end); it exits with status 0 only
\* once the three workers are dead.
C11_ShutdownTerminates ==
    /\ (termReceived ~> (mainPc = "exited" /\ exited.status = 0))
    /\ []((mainPc = "exited" /\ exited.status = 0) =>
            \A w \in Workers : pc[w] = "dead")

\* The process has exited with status 0 after a request that found render()
\* suspended in its wait on watch_ev.
C11_Witness ==
    /\ mainPc = "exited" /\ exited.status = 0
    /\ termReceived /\ ~aborted /\ ~watch_ev /\ nBuilds >= 2

Consumed == ~render_ev /\ pc["render"] # "set_ready"

Quiescent == pc["render"] = "waiting" /\ ~watch_ev

\* C14: an event of a file without an allowed suffix ("md") leaves watch_ev
\* as it is and starts no build; an event of a file with an allowed suffix
\* sets watch_ev, and each set() that finds the flag unset is followed by
\* exactly one build: once render() is back in its wait with the flag unset,
\* the builds are the initial one plus one per such set().
C14_FilterCorrect ==
    /\ [][\A suffix \in Suffixes \ extensions :
            WatchEvent(suffix) => UNCHANGED <<watch_ev, pending, nSets, nBuilds, pc>>]_vars
    /\ [][\A suffix \in extensions :
            WatchEvent(suffix) => (watch_ev' /\ nSets' = nSets + 1)]_vars
    /\ [](nBuilds <= 1 + nFresh)
    /\ [](Quiescent => nBuilds = 1 + nFresh)

\* Two files changed under watch(), one of them with an allowed suffix, and
\* exactly one build followed the initial one.
C14_Witness ==
    Quiescent /\ pc["watch"] = "iterating" /\ nChanges = 2 /\ nSets = 1 /\ nBuilds = 2

\* C15 (as stated): a client receives only notifications of builds that
\* completed while it was connected.
C15_OnlyBuildsWhileConnected ==
    [][\A c \in Observed : delivered'[c] # delivered[c] => c \in readyFor]_vars

\* C15 (as amended): a client that is not connected when the server consumes
\* render_ev and broadcasts does not receive that notification, neither then
\* nor when it connects; a notification is received only at a broadcast.
C15_NoReplay ==
    /\ [][\A c \in Observed :
            (render_ev /\ ~render_ev' /\ c \notin conns) => delivered'[c] = delivered[c]]_vars
    /\ [][\A c \in Observed :
            (c \notin conns /\ c \in conns') => delivered'[c] = delivered[c]]_vars
    /\ [][\A c \in Observed :
            delivered'[c] # delivered[c] => (c \in conns /\ render_ev /\ ~render_ev')]_vars

\* A client connected after the only broadcast so far and has received
\* nothing.
C15_Witness ==
    1 \in conns /\ delivered[1] = 0 /\ nDone >= 1 /\ Consumed /\ pc["render"] = "waiting"

\* C16: every build other than the initial one is started by render() right
\* after a clear() that found at least one set() made since the previous
\* clear(); so the builds started never exceed 1 plus the watch_ev.set() calls
\* of watch(), and with no such call only the initial build runs.
C16_NoSpuriousBuild ==
    /\ [][(pc["render"] = "clear" /\ pc'["render"] # "clear" /\ pc'["render"] # "dead")
            => (watch_ev /\ pending >= 1 /\ pc'["render"] = "build_call")]_vars
    /\ [][nBuilds' # nBuilds =>
            /\ nBuilds' = nBuilds + 1
            /\ \/ (nBuilds = 0 /\ mainPc = "start")
               \/ (nBuilds >= 1 /\ pc["render"] = "build_call" /\ pending = 0)]_vars
    /\ [][(pc'["render"] = "build_call" /\ pc["render"] # "build_call")
            => pc["render"] = "clear"]_vars
    /\ [](nBuilds <= 1 + nSets)
    /\ []((nSets = 0 /\ pc["watch"] # "unspawned") => nBuilds = 1)

\* As many builds as the bound allows: each set() was followed by its own build.
C16_Witness == nSets = 2 /\ nBuilds = 3 /\ pc["render"] = "building" /\ pending = 0

\* C17: render_ev is set only by render(), in the step that follows the
\* return of the build of the same cycle; no set() is made while that build
\* is in flight, and the set() calls never outnumber the builds that the
\* render() loop has completed.
C17_NoEarlySignal ==
    /\ [][(nSignals' # nSignals \/ (~render_ev /\ render_ev')) =>
            /\ pc["render"] = "set_ready"
            /\ pc'["render"] = "wait_call"
            /\ InFlight = 0
            /\ "render" \in unsignalled
            /\ render_ev'
            /\ nSignals' = nSignals + 1]_vars
    /\ [](nSignals <= nDone)
    /\ [](pc["render"] = "building" => nSignals = nDone)
    /\ [](nBuilds <= 1 => (nSignals = 0 /\ ~render_ev))

\* A build is in flight while the set() of the previous cycle is still
\* unconsumed.
C17_Witness ==
    pc["render"] = "building" /\ render_ev /\ nSignals = 1 /\ nDone = 1 /\ nBuilds = 3

\* C18: the three workers are spawned in one step, after the initial build
\* has returned exit code zero; none exists while the initial build runs; a
\* qualifying change made during the initial build sets no watch_ev and, with
\* no change seen by watch(), no build follows the initial one.
C18_StartupOrdering ==
    /\ [][(\E w \in Workers : pc[w] = "unspawned" /\ pc'[w] # "unspawned") =>
            /\ mainPc = "check"
            /\ result.code = 0
            /\ InFlight = 0
            /\ \A w \in Workers : pc[w] = "unspawned" /\ pc'[w] = "spawned"]_vars
    /\ [](mainPc \in {"prog", "start", "build", "check"} =>
            /\ \A w \in Workers : pc[w] = "unspawned"
            /\ ~watch_ev
            /\ nSets = 0)
    /\ [][duringInitial' # duringInitial =>
            (mainPc = "build" /\ UNCHANGED <<watch_ev, nSets, pending, nBuilds, pc>>)]_vars
    /\ []((duringInitial >= 1 /\ nSets = 0) => (~watch_ev /\ nBuilds = 1))

\* Changes were made during the initial build only; the workers run and
\* render() waits without having built.
C18_Witness ==
    /\ duringInitial = 2
    /\ nChanges = 2
    /\ pc["watch"] = "iterating"
    /\ pc["render"] = "waiting"
    /\ pc["serve"] = "serving"
    /\ nBuilds = 1

\* C19: shutdown_handler runs only once the initial build has succeeded and
\* the three workers have been spawned; a SIGTERM during the initial build
\* ends the process by the default disposition, with no worker spawned and a
\* nonzero status; exit status 0 is reached only through shutdown_handler.
C19_HandlerWindow ==
    /\ [][(~termReceived /\ termReceived') =>
            /\ mainPc = "joinall"
            /\ nBuilds >= 1
            /\ InFlight = (IF pc["render"] = "building" THEN 1 ELSE 0)
            /\ \A w \in Workers : pc[w] # "unspawned"]_vars
    /\ []((mainPc = "exited" /\ exited.status = 0) =>
            (termReceived /\ \A w \in Workers : pc[w] = "dead"))
    /\ [](mainPc = "killed" =>
            /\ ~termReceived
            /\ exited.status = 128 + SIGTERM
            /\ \A w \in Workers : pc[w] = "unspawned")
    /\ [][mainPc' = "killed" => mainPc \in {"start", "build", "killed"}]_vars

\* SIGTERM arrived while the initial build was running.
C19_Witness ==
    mainPc = "killed" /\ nBuilds = 1 /\ exited.status = 128 + SIGTERM /\ ~termReceived

====
